---------------------------- MODULE Spec2Model ----------------------------
(***************************************************************************)
(* A model of the searchable-encryption package (README.md holds the       *)
(* package's code after its API listing; crypto.js is the earlier          *)
(* {key, iv}-only version of the key generator and of the cipher).         *)
(*                                                                         *)
(* JavaScript values are records [t, v]: t is the run-time type            *)
(* ("string", "Uint8Array", "ArrayBuffer", "undefined") and v the content, *)
(* a sequence of code points for a string and of bytes (0..255) for a      *)
(* buffer.  The WebCrypto primitives (SHA, PBKDF2, AES) are replaced by    *)
(* small stand-ins that keep what the package's code relies on: their      *)
(* input/output shapes, determinism, the CBC chaining and PKCS#7 padding,  *)
(* and the errors they throw.                                              *)
(***************************************************************************)
EXTENDS Integers, Sequences, FiniteSets, TLC

(***************************************************************************)
(* Values                                                                  *)
(***************************************************************************)
Str(cps) == [t |-> "string", v |-> cps]
U8(bytes) == [t |-> "Uint8Array", v |-> bytes]
AB(bytes) == [t |-> "ArrayBuffer", v |-> bytes]
Num(n) == [t |-> "number", v |-> <<n>>]
Undefined == [t |-> "undefined", v |-> <<>>]

\* value.byteLength: defined on buffers and views only
byteLength(x) == IF x.t \in {"Uint8Array", "ArrayBuffer"} THEN Len(x.v) ELSE 0

Zeros(n) == [i \in 1..n |-> 0]

RECURSIVE Flatten(_)
Flatten(ss) == IF ss = <<>> THEN <<>> ELSE Head(ss) \o Flatten(Tail(ss))

RECURSIVE XorByte(_, _)
XorByte(a, b) ==
  IF a = 0 THEN b
  ELSE IF b = 0 THEN a
  ELSE (((a % 2) + (b % 2)) % 2) + 2 * XorByte(a \div 2, b \div 2)

(***************************************************************************)
(* Buffer's text encodings (Node's Buffer.from(string, encoding) and       *)
(* buffer.toString(encoding)), which str2ab and ab2str delegate to.        *)
(***************************************************************************)
ReplacementChar == 65533

Utf8Char(cp) ==
  IF cp < 128 THEN <<cp>>
  ELSE IF cp < 2048 THEN <<192 + (cp \div 64), 128 + (cp % 64)>>
  ELSE IF cp \in 55296..57343 THEN <<239, 191, 189>>   \* a lone surrogate
  ELSE IF cp < 65536
    THEN <<224 + (cp \div 4096), 128 + ((cp \div 64) % 64), 128 + (cp % 64)>>
  ELSE <<240 + (cp \div 262144), 128 + ((cp \div 4096) % 64),
         128 + ((cp \div 64) % 64), 128 + (cp % 64)>>

Utf8Encode(cps) == Flatten([i \in 1..Len(cps) |-> Utf8Char(cps[i])])

\* The UTF-8 decoder: an ill-formed sequence decodes to U+FFFD, never to an
\* error.  st = <<code point, bytes needed, bytes seen, lower, upper>>.
RECURSIVE Utf8Dec(_, _, _, _)
Utf8Dec(bytes, i, st, out) ==
  IF i > Len(bytes)
    THEN IF st[2] # 0 THEN Append(out, ReplacementChar) ELSE out
  ELSE LET b == bytes[i] IN
    IF st[2] = 0 THEN
      IF b <= 127 THEN Utf8Dec(bytes, i + 1, st, Append(out, b))
      ELSE IF b \in 194..223
        THEN Utf8Dec(bytes, i + 1, <<b - 192, 1, 0, 128, 191>>, out)
      ELSE IF b \in 224..239
        THEN Utf8Dec(bytes, i + 1,
               <<b - 224, 2, 0, IF b = 224 THEN 160 ELSE 128,
                 IF b = 237 THEN 159 ELSE 191>>, out)
      ELSE IF b \in 240..244
        THEN Utf8Dec(bytes, i + 1,
               <<b - 240, 3, 0, IF b = 240 THEN 144 ELSE 128,
                 IF b = 244 THEN 143 ELSE 191>>, out)
      ELSE Utf8Dec(bytes, i + 1, st, Append(out, ReplacementChar))
    ELSE IF b \notin st[4]..st[5]
      THEN Utf8Dec(bytes, i, <<0, 0, 0, 128, 191>>, Append(out, ReplacementChar))
    ELSE LET cp == st[1] * 64 + (b - 128) IN
      IF st[3] + 1 = st[2]
        THEN Utf8Dec(bytes, i + 1, <<0, 0, 0, 128, 191>>, Append(out, cp))
        ELSE Utf8Dec(bytes, i + 1, <<cp, st[2], st[3] + 1, 128, 191>>, out)

Utf8Decode(bytes) == Utf8Dec(bytes, 1, <<0, 0, 0, 128, 191>>, <<>>)

HexDigit(n) == IF n < 10 THEN 48 + n ELSE 87 + n

HexVal(c) ==
  IF c \in 48..57 THEN c - 48
  ELSE IF c \in 97..102 THEN c - 87
  ELSE IF c \in 65..70 THEN c - 55
  ELSE -1

HexEncode(bytes) ==
  [i \in 1..(2 * Len(bytes)) |->
    IF i % 2 = 1 THEN HexDigit(bytes[(i + 1) \div 2] \div 16)
    ELSE HexDigit(bytes[i \div 2] % 16)]

\* Decoding stops at the first pair that is not two hex digits; an odd last
\* character is dropped.
RECURSIVE HexDec(_, _, _)
HexDec(cps, i, out) ==
  IF i + 1 > Len(cps) THEN out
  ELSE IF HexVal(cps[i]) < 0 \/ HexVal(cps[i + 1]) < 0 THEN out
  ELSE HexDec(cps, i + 2, Append(out, 16 * HexVal(cps[i]) + HexVal(cps[i + 1])))

HexDecode(cps) == HexDec(cps, 1, <<>>)

\* 'latin1' and 'ascii' both write the low byte of each code unit; reading,
\* 'ascii' clears the high bit of each byte and 'latin1' keeps it.
Latin1Encode(cps) == [i \in 1..Len(cps) |-> cps[i] % 256]
Latin1Decode(bytes) == bytes
AsciiDecode(bytes) == [i \in 1..Len(bytes) |-> bytes[i] % 128]

Encodings == {"hex", "utf-8", "ascii", "latin1"}

BufferFrom(cps, encoding) ==
  CASE encoding = "hex" -> HexDecode(cps)
    [] encoding = "utf-8" -> Utf8Encode(cps)
    [] encoding = "ascii" -> Latin1Encode(cps)
    [] encoding = "latin1" -> Latin1Encode(cps)

BufferToString(bytes, encoding) ==
  CASE encoding = "hex" -> HexEncode(bytes)
    [] encoding = "utf-8" -> Utf8Decode(bytes)
    [] encoding = "ascii" -> AsciiDecode(bytes)
    [] encoding = "latin1" -> Latin1Decode(bytes)

(***************************************************************************)
(* Utility functions of the package                                        *)
(***************************************************************************)
\* an omitted (undefined) encoding argument takes the default "hex"
DefaultEncoding(encoding) == IF encoding = "undefined" THEN "hex" ELSE encoding

\* str2ab(string, encoding = "hex"): a Uint8Array
str2ab(string, encoding) == U8(BufferFrom(string.v, DefaultEncoding(encoding)))

\* ab2str(arrayBuffer, encoding = "hex"): a string
ab2str(arrayBuffer, encoding) ==
  Str(BufferToString(arrayBuffer.v, DefaultEncoding(encoding)))

\* result.set(buffer, offset): a typed-array source is copied; any other
\* source is read as an array-like, and an ArrayBuffer, which has no length,
\* copies nothing: its byteLength bytes of the result stay 0.
SetBytes(buffer) ==
  IF buffer.t = "Uint8Array" THEN buffer.v
  ELSE Zeros(byteLength(buffer))

\* abConcat(...buffers): a Uint8Array of the summed byteLength
abConcat(buffers) == U8(Flatten([i \in 1..Len(buffers) |-> SetBytes(buffers[i])]))

(***************************************************************************)
(* Stand-ins for the WebCrypto primitives                                  *)
(***************************************************************************)
\* A fingerprint of a byte sequence: its k-th moment, sum of i^k * (b[i] + 1)
RECURSIVE MomentRange(_, _, _, _)
MomentRange(bytes, k, lo, hi) ==
  IF lo > hi THEN 0
  ELSE IF lo = hi
    THEN ((IF k = 0 THEN 1 ELSE IF k = 1 THEN lo ELSE lo * lo) * (bytes[lo] + 1)) % 65536
  ELSE LET mid == (lo + hi) \div 2
       IN (MomentRange(bytes, k, lo, mid) + MomentRange(bytes, k, mid + 1, hi)) % 65536

Moment(bytes, k, from) == MomentRange(bytes, k, from, Len(bytes))

HashNames == {"SHA-1", "SHA-256", "SHA-384", "SHA-512"}

HashLen(hash) ==
  CASE hash = "SHA-1" -> 20
    [] hash = "SHA-256" -> 32
    [] hash = "SHA-384" -> 48
    [] hash = "SHA-512" -> 64

\* crypto.subtle.digest(hash, bytes): HashLen(hash) bytes that are a function
\* of the algorithm and of the whole input.  The first eight bytes spell the
\* input's length and moments, so that the inputs the model draws do not
\* collide (collision resistance); the others mix them.
SubtleDigest(hash, bytes) ==
  LET w == <<Moment(bytes, 0, 1), Moment(bytes, 1, 1), Moment(bytes, 2, 1),
             (Len(bytes) * 8 + HashLen(hash)) % 65536>>
  IN AB([j \in 1..HashLen(hash) |->
          IF j <= 4 THEN w[j] % 256
          ELSE IF j <= 8 THEN w[j - 4] \div 256
          ELSE (w[1] + (w[2] * j) + (w[3] * j * j) + (w[4] * (j + 1))) % 256])

\* crypto.subtle.deriveBits({name: "PBKDF2", hash, salt, iterations}, key, bits):
\* an unsupported hash and a zero iteration count are rejected; otherwise
\* bits / 8 bytes, a function of (hash, password, salt, iterations) of which
\* a shorter output is a prefix of a longer one, as with PBKDF2.  The WebIDL
\* conversion of iterations to an unsigned long drops its fractional part,
\* which the callers model by integer division.
Pbkdf2Error(hash, iterations) ==
  IF hash \notin HashNames THEN "NotSupportedError"
  ELSE IF iterations = 0 THEN "OperationError"
  ELSE "none"

Pbkdf2Bits(hash, password, salt, iterations, bits) ==
  LET p == (Moment(password, 0, 1) + (3 * Moment(password, 1, 1))) % 251
      s == (Moment(salt, 0, 1) + (5 * Moment(salt, 1, 1))) % 251
  IN AB([j \in 1..(bits \div 8) |->
          ((p * (j + 1)) + (s * ((2 * j) + 1)) + (iterations * (j + 3))
            + (HashLen(hash) * 7) + (j * j)) % 256])

(***************************************************************************)
(* digest                                                                  *)
(***************************************************************************)
DEFAULT_SALT == Str(<<68, 69, 70, 65, 85, 76, 84, 45, 83, 65, 76, 84>>)

\* the buffer digest() hashes: abConcat(dataBuffer, saltBuffer)
DigestInput(data, salt) ==
  LET salt1 == IF salt = Undefined THEN DEFAULT_SALT ELSE salt
      saltBuffer == IF salt1.t = "string" THEN str2ab(salt1, "utf-8") ELSE salt1
      dataBuffer == IF data.t = "string" THEN str2ab(data, "utf-8") ELSE data
  IN abConcat(<<dataBuffer, saltBuffer>>)

\* digest(data, {hash = "SHA-256", salt = "DEFAULT-SALT"}): hex text
digest(data, hash, salt) ==
  LET hash1 == IF hash = "undefined" THEN "SHA-256" ELSE hash
      hashBuffer == SubtleDigest(hash1, DigestInput(data, salt).v)
  IN ab2str(hashBuffer, "undefined")

(***************************************************************************)
(* genSecretKey (README.md) and generateSecretKey (crypto.js)              *)
(***************************************************************************)
PASSPHRASE == Str(<<80, 65, 83, 83, 80, 72, 82, 65, 83, 69>>)
DefaultIterations == 999
DefaultKeyLengthByte == 48
SaltLength == 512
AesKeyLength == 32
IvLength == 16

\* crypto.getRandomValues(new Uint8Array(512)): the r-th value the generator
\* can return
RandomValues(r) == U8([i \in 1..SaltLength |-> ((i * i * r) + (37 * r) + i) % 256])

\* ArrayBuffer.prototype.slice(0, n) and slice(-n)
SliceFirst(bytes, n) == SubSeq(bytes, 1, IF Len(bytes) < n THEN Len(bytes) ELSE n)
SliceLast(bytes, n) ==
  SubSeq(bytes, IF Len(bytes) < n THEN 1 ELSE Len(bytes) - n + 1, Len(bytes))

\* crypto.subtle.importKey("raw", bytes, {name: "AES-CBC"}, ...) accepts
\* keys of 128, 192 and 256 bits only
AesKeyLengths == {16, 24, 32}

NoKeyMaterial == [key |-> <<>>, iv |-> Undefined, secretSalt |-> Undefined]
Rejected(error) == [status |-> "rejected", error |-> error, value |-> NoKeyMaterial]
Fulfilled(value) == [status |-> "fulfilled", error |-> "none", value |-> value]

\* the options after destructuring with their defaults
OptHash(hash) == IF hash = "undefined" THEN "SHA-256" ELSE hash
OptSalt(salt, r) == IF salt = Undefined THEN RandomValues(r) ELSE salt
OptIterations(iterations) ==
  IF iterations = Undefined THEN DefaultIterations ELSE iterations.v[1]
OptKeyLengthByte(keyLengthByte) ==
  IF keyLengthByte = Undefined THEN DefaultKeyLengthByte ELSE keyLengthByte.v[1]
OptSecret(secret) == IF secret = Undefined THEN PASSPHRASE ELSE secret

\* the bytes imported as the PBKDF2 key: str2ab(secret), with no encoding
\* given, so the passphrase is read as hex
DeriveBitsKey(secret) == str2ab(OptSecret(secret), "undefined").v

SaltBuffer(salt, r) ==
  LET salt1 == OptSalt(salt, r)
  IN IF salt1.t = "string" THEN str2ab(salt1, "undefined").v ELSE salt1.v

\* the first derivation: keyLengthByte bytes for the cipher key and the iv
DerivedBits(secret, hash, salt, iterations, keyLengthByte, r1) ==
  Pbkdf2Bits(OptHash(hash), DeriveBitsKey(secret), SaltBuffer(salt, r1),
             OptIterations(iterations), OptKeyLengthByte(keyLengthByte) * 8).v

\* the second derivation: 32 bytes under a fresh random salt and
\* iterations / 2
SecretSaltBits(secret, hash, iterations, r2) ==
  Pbkdf2Bits(OptHash(hash), DeriveBitsKey(secret), RandomValues(r2).v,
             OptIterations(iterations) \div 2, 32 * 8)

\* generateSecretKey(secret, options) of crypto.js: {key, iv}
generateSecretKey(secret, hash, salt, iterations, keyLengthByte, r1) ==
  LET err1 == Pbkdf2Error(OptHash(hash), OptIterations(iterations))
      derivedBits == DerivedBits(secret, hash, salt, iterations, keyLengthByte, r1)
      derivedKey == SliceFirst(derivedBits, AesKeyLength)
      iv == SliceLast(derivedBits, IvLength)
  IN IF err1 # "none" THEN Rejected(err1)
     ELSE IF Len(derivedKey) \notin AesKeyLengths THEN Rejected("DataError")
     ELSE Fulfilled([key |-> derivedKey, iv |-> AB(iv), secretSalt |-> Undefined])

\* genSecretKey(secret, options) of README.md: {key, iv, secretSalt}
genSecretKey(secret, hash, salt, iterations, keyLengthByte, r1, r2) ==
  LET first == generateSecretKey(secret, hash, salt, iterations, keyLengthByte, r1)
      err2 == Pbkdf2Error(OptHash(hash), OptIterations(iterations) \div 2)
  IN IF first.status = "rejected" THEN first
     ELSE IF err2 # "none" THEN Rejected(err2)
     ELSE Fulfilled([first.value EXCEPT
            !.secretSalt = SecretSaltBits(secret, hash, iterations, r2)])

(***************************************************************************)
(* encrypt and decrypt                                                     *)
(***************************************************************************)
BlockSize == 16

Xor(a, b) == [i \in 1..Len(a) |-> XorByte(a[i], b[i])]

\* The block cipher: a keyed permutation of the 16-byte blocks, every byte
\* of which depends on the whole key.
KeyByte(key, i) == key[((i - 1) % Len(key)) + 1] + (Moment(key, 1, 1) % 256)
BlockEncrypt(key, block) ==
  [i \in 1..Len(block) |-> (block[i] + KeyByte(key, i)) % 256]
BlockDecrypt(key, block) ==
  [i \in 1..Len(block) |-> (block[i] + 512 - KeyByte(key, i)) % 256]

\* PKCS#7: 1..16 bytes are always added, each holding their number
Pkcs7Pad(bytes) ==
  LET n == BlockSize - (Len(bytes) % BlockSize)
  IN bytes \o [i \in 1..n |-> n]

Pkcs7Valid(bytes) ==
  /\ Len(bytes) > 0
  /\ LET n == bytes[Len(bytes)]
     IN /\ n \in 1..BlockSize
        /\ n <= Len(bytes)
        /\ \A i \in (Len(bytes) - n + 1)..Len(bytes) : bytes[i] = n

Pkcs7Unpad(bytes) == SubSeq(bytes, 1, Len(bytes) - bytes[Len(bytes)])

\* cipher block chaining: each plaintext block is xored with the previous
\* ciphertext block (the iv for the first) before it is encrypted
RECURSIVE CbcEncrypt(_, _, _)
CbcEncrypt(key, prev, plain) ==
  IF plain = <<>> THEN <<>>
  ELSE LET c == BlockEncrypt(key, Xor(SubSeq(plain, 1, BlockSize), prev))
       IN c \o CbcEncrypt(key, c, SubSeq(plain, BlockSize + 1, Len(plain)))

RECURSIVE CbcDecrypt(_, _, _)
CbcDecrypt(key, prev, cipher) ==
  IF cipher = <<>> THEN <<>>
  ELSE LET c == SubSeq(cipher, 1, BlockSize)
       IN Xor(BlockDecrypt(key, c), prev)
            \o CbcDecrypt(key, c, SubSeq(cipher, BlockSize + 1, Len(cipher)))

NoText == Str(<<>>)
Thrown(error) == [status |-> "rejected", error |-> error, value |-> NoText]
Returned(value) == [status |-> "fulfilled", error |-> "none", value |-> value]

\* crypto.subtle.encrypt({name: "AES-CBC", iv}, key, data)
SubtleEncrypt(keyObject, data) == CbcEncrypt(keyObject.key, keyObject.iv.v, Pkcs7Pad(data))

\* crypto.subtle.decrypt({name: "AES-CBC", iv}, key, data): an OperationError
\* for data that is not a positive number of blocks and for a bad padding
SubtleDecryptFails(keyObject, data) ==
  \/ Len(data) = 0
  \/ Len(data) % BlockSize # 0
  \/ ~Pkcs7Valid(CbcDecrypt(keyObject.key, keyObject.iv.v, data))

SubtleDecrypt(keyObject, data) ==
  Pkcs7Unpad(CbcDecrypt(keyObject.key, keyObject.iv.v, data))

\* encrypt(text, keyObject, encoding)
encrypt(text, keyObject, encoding) ==
  LET encryptedBuffer == AB(SubtleEncrypt(keyObject, str2ab(text, "utf-8").v))
  IN Returned(ab2str(encryptedBuffer, encoding))

\* decrypt(encryptedData, keyObject, encoding)
decrypt(encryptedData, keyObject, encoding) ==
  LET dataBuffer == IF encryptedData.t = "string"
                      THEN str2ab(encryptedData, encoding) ELSE encryptedData
  IN IF SubtleDecryptFails(keyObject, dataBuffer.v) THEN Thrown("OperationError")
     ELSE Returned(ab2str(AB(SubtleDecrypt(keyObject, dataBuffer.v)), "utf-8"))

(***************************************************************************)
(* buildIndex and trapdoor                                                 *)
(***************************************************************************)
\* String.prototype.split(" "): the pieces between single spaces, empty
\* pieces included
RECURSIVE SplitFrom(_, _, _)
SplitFrom(cps, i, piece) ==
  IF i > Len(cps) THEN <<Str(piece)>>
  ELSE IF cps[i] = 32 THEN <<Str(piece)>> \o SplitFrom(cps, i + 1, <<>>)
  ELSE SplitFrom(cps, i + 1, Append(piece, cps[i]))

Split(string) == SplitFrom(string.v, 1, <<>>)

\* new Set(iterable), iterated: the distinct values in first-insertion order
RECURSIVE NewSet(_)
NewSet(values) ==
  IF values = <<>> THEN <<>>
  ELSE LET front == NewSet(SubSeq(values, 1, Len(values) - 1))
           last == values[Len(values)]
       IN IF \E j \in 1..Len(front) : front[j] = last THEN front
          ELSE Append(front, last)

NoKeywords == [threw |-> TRUE, keywords |-> <<>>]
Keywords(keywords) == [threw |-> FALSE, keywords |-> keywords]

\* Keyword extractors a caller may supply as getKeywords: the tokens of a
\* text as an array (repeats kept), and the data itself as its one keyword.
Extractors == {"tokens", "whole"}

\* an extractor call whose default extractor skips data that is not text
CallGetKeywordsLenient(getKeywords, data) ==
  CASE getKeywords = "undefined" -> NoKeywords
    [] getKeywords = "default" ->
         IF data.t = "string" THEN Keywords(NewSet(Split(data))) ELSE Keywords(<<>>)
    [] getKeywords = "tokens" ->
         IF data.t = "string" THEN Keywords(Split(data)) ELSE NoKeywords
    [] getKeywords = "whole" -> Keywords(<<data>>)

\* getKeywords(doc.data): calling undefined, or split on data that is not a
\* string, throws a TypeError
CallGetKeywords(getKeywords, data) ==
  CASE getKeywords = "undefined" -> NoKeywords
    [] getKeywords = "default" ->
         IF data.t = "string" THEN Keywords(NewSet(Split(data))) ELSE NoKeywords
    [] getKeywords = "tokens" ->
         IF data.t = "string" THEN Keywords(Split(data)) ELSE NoKeywords
    [] getKeywords = "whole" -> Keywords(<<data>>)

\* the fallback extractor is chosen on the first document's data only
Fallback(documents, getKeywords) ==
  IF getKeywords = "undefined" /\ Len(documents) > 0 /\ documents[1].data.t = "string"
    THEN "default" ELSE getKeywords

\* a buildIndex that hashes the keyword without the key's secretSalt
BuildTrapdoorUnsalted(keyword, secretKey) == digest(keyword, "undefined", Undefined)

\* the trapdoor buildIndex computes for a keyword
BuildTrapdoor(keyword, secretKey) == digest(keyword, "undefined", secretKey.secretSalt)

\* trapdoor(query, secretKey)
trapdoor(query, secretKey) == digest(query, "undefined", secretKey.secretSalt)

\* indexTable, an object: its keys in insertion order, each with its array
HasKey(indexTable, key) == \E j \in 1..Len(indexTable) : indexTable[j].trapdoor = key
Lookup(indexTable, key) ==
  IF HasKey(indexTable, key)
    THEN indexTable[CHOOSE j \in 1..Len(indexTable) : indexTable[j].trapdoor = key].pointers
    ELSE <<>>

\* a table update that puts the pointer in front of the list (unshift)
PushFront(indexTable, key, pointer) ==
  IF HasKey(indexTable, key)
    THEN [j \in 1..Len(indexTable) |->
           IF indexTable[j].trapdoor = key
             THEN [indexTable[j] EXCEPT !.pointers = <<pointer>> \o @]
             ELSE indexTable[j]]
    ELSE Append(indexTable, [trapdoor |-> key, pointers |-> <<pointer>>])

\* if (!indexTable[trapdoor]) indexTable[trapdoor] = [];
\* indexTable[trapdoor].push(doc.pointer);
Push(indexTable, key, pointer) ==
  IF HasKey(indexTable, key)
    THEN [j \in 1..Len(indexTable) |->
           IF indexTable[j].trapdoor = key
             THEN [indexTable[j] EXCEPT !.pointers = Append(@, pointer)]
             ELSE indexTable[j]]
    ELSE Append(indexTable, [trapdoor |-> key, pointers |-> <<pointer>>])

NoTable == <<>>

\* The invocation runs on from keyword ki of document di to its next
\* suspension (the awaited digest of a keyword), to its return or to a throw.
RECURSIVE RunOn(_)
RunOn(b) ==
  IF b.ki <= Len(b.keywords)
    THEN [b EXCEPT !.pc = "await",
                   !.pending = BuildTrapdoor(b.keywords[b.ki], b.secretKey)]
  ELSE IF b.di = Len(b.documents)
    THEN [b EXCEPT !.pc = "returned", !.returned = TRUE, !.result = b.indexTable]
  ELSE LET got == CallGetKeywords(b.getKeywords, b.documents[b.di + 1].data)
       IN IF got.threw
            THEN [b EXCEPT !.pc = "threw", !.error = "TypeError", !.di = b.di + 1]
            ELSE RunOn([b EXCEPT !.di = b.di + 1, !.keywords = got.keywords, !.ki = 1])

\* buildIndex(documents, secretKey, getKeywords), up to its first suspension
buildIndex(documents, secretKey, getKeywords) ==
  RunOn([pc |-> "running", documents |-> documents, secretKey |-> secretKey,
         supplied |-> getKeywords,
         getKeywords |-> Fallback(documents, getKeywords),
         indexTable |-> <<>>, di |-> 0, keywords |-> <<>>, ki |-> 1,
         pending |-> NoText, returned |-> FALSE, result |-> NoTable,
         error |-> "none", query |-> Undefined, trapdoor |-> NoText,
         found |-> <<>>])

\* the awaited digest is delivered: the pointer is stored, and the loops go on
Resumed(b) ==
  RunOn([b EXCEPT !.indexTable = Push(b.indexTable, b.pending, b.documents[b.di].pointer),
                  !.ki = b.ki + 1, !.pending = NoText])

(***************************************************************************)
(* State.  Each component of the package is exercised by a caller of its   *)
(* own: dg holds the digest calls made, kc the key-generation calls, ci    *)
(* the cipher calls and bi the buildIndex invocations.                     *)
(***************************************************************************)
VARIABLES dg, kc, ci, bi

vars == <<dg, kc, ci, bi>>

(***************************************************************************)
(* Caller of digest                                                        *)
(***************************************************************************)
\* "", "a", "b", "ab", "\u00e9" as text; bytes as views and as ArrayBuffers
DigestValues ==
  {Str(<<>>), Str(<<97>>), Str(<<98>>), Str(<<97, 98>>), Str(<<233>>),
   U8(<<97>>), U8(<<1, 2>>), AB(<<1>>), AB(<<2>>), AB(<<1, 2>>)}

DigestHashes == {"undefined", "SHA-1"}

DigestRecord(data, hash, salt) ==
  [data |-> data, hash |-> hash, salt |-> salt,
   input |-> DigestInput(data, salt).v,
   out |-> digest(data, hash, salt)]

\* a first call, on any data and options
Digest ==
  /\ dg = <<>>
  /\ \E data \in DigestValues, salt \in DigestValues \cup {Undefined},
        hash \in DigestHashes :
       dg' = <<DigestRecord(data, hash, salt)>>
  /\ UNCHANGED <<kc, ci, bi>>

\* a second call with the same arguments
DigestAgain ==
  /\ Len(dg) = 1
  /\ dg' = Append(dg, DigestRecord(dg[1].data, dg[1].hash, dg[1].salt))
  /\ UNCHANGED <<kc, ci, bi>>

\* a second call with data and salt exchanged
DigestSwapped ==
  /\ Len(dg) = 1
  /\ dg[1].salt # Undefined
  /\ dg' = Append(dg, DigestRecord(dg[1].salt, dg[1].hash, dg[1].data))
  /\ UNCHANGED <<kc, ci, bi>>

(***************************************************************************)
(* Caller of genSecretKey: a first call, then a second call with the same  *)
(* options.                                                                *)
(***************************************************************************)
NumRandom == 2

\* omitted, "ab" and "AB" (both hex for the byte 171) and "pw" (not hex)
KeySecrets == {Undefined, Str(<<97, 98>>), Str(<<65, 66>>), Str(<<112, 119>>)}
KeyHashes == {"undefined", "SHA-512", "MD5"}
\* omitted, "01ff" and a three-byte view
KeySalts == {Undefined, Str(<<48, 49, 102, 102>>), U8(<<1, 2, 3>>)}
KeyIterations == {Undefined, Num(1), Num(2)}
KeyLengths == {Undefined, Num(16), Num(20), Num(32), Num(64)}

\* getRandomValues is called for the salt only when options.salt is omitted
SaltDraws(salt) == IF salt = Undefined THEN 1..NumRandom ELSE {0}

KeyCall(secret, hash, salt, iterations, keyLengthByte, r1, r2) ==
  [secret |-> secret, hash |-> hash, salt |-> salt, iterations |-> iterations,
   keyLengthByte |-> keyLengthByte, r1 |-> r1, r2 |-> r2,
   result |-> genSecretKey(secret, hash, salt, iterations, keyLengthByte, r1, r2)]

GenKey ==
  /\ kc = <<>>
  /\ \E secret \in KeySecrets, hash \in KeyHashes, salt \in KeySalts,
        iterations \in KeyIterations, keyLengthByte \in KeyLengths :
       \E r1 \in SaltDraws(salt), r2 \in 1..NumRandom :
         kc' = <<KeyCall(secret, hash, salt, iterations, keyLengthByte, r1, r2)>>
  /\ UNCHANGED <<dg, ci, bi>>

GenKeyAgain ==
  /\ Len(kc) = 1
  /\ \E secret \in KeySecrets :
       \E r1 \in SaltDraws(kc[1].salt), r2 \in 1..NumRandom :
         kc' = Append(kc, KeyCall(secret, kc[1].hash, kc[1].salt,
                 kc[1].iterations, kc[1].keyLengthByte, r1, r2))
  /\ UNCHANGED <<dg, ci, bi>>

(***************************************************************************)
(* Caller of encrypt and decrypt: a text is encrypted, and the ciphertext  *)
(* is then decrypted, with any key material and any encoding.              *)
(***************************************************************************)
MaxMsgLen == 17

\* key material returned by genSecretKey: for a passphrase and a salt; for
\* the same with keyLengthByte 64 (the same cipher key, another iv); for
\* another passphrase; with keyLengthByte 16 (a 128-bit key, equal to the iv)
CipherKeys ==
  {genSecretKey(Str(<<97, 98>>), "undefined", U8(<<1, 2, 3>>), Undefined, Undefined, 0, 1).value,
   genSecretKey(Str(<<97, 98>>), "undefined", U8(<<1, 2, 3>>), Undefined, Num(64), 0, 1).value,
   genSecretKey(Str(<<99, 100>>), "undefined", U8(<<1, 2, 3>>), Undefined, Undefined, 0, 1).value,
   genSecretKey(Str(<<97, 98>>), "undefined", U8(<<1, 2, 3>>), Undefined, Num(16), 0, 1).value}

\* "a" repeated 0..MaxMsgLen times, and two texts outside ASCII
Messages ==
  {Str([i \in 1..n |-> 97]) : n \in 0..MaxMsgLen}
    \cup {Str(<<233>>), Str(<<8364, 98>>)}

CipherEncodings == Encodings \cup {"undefined"}

Encrypt ==
  /\ ci = <<>>
  /\ \E text \in Messages, keyObject \in CipherKeys, encoding \in CipherEncodings :
       ci' = <<[text |-> text, key |-> keyObject, encoding |-> encoding,
                result |-> encrypt(text, keyObject, encoding)]>>
  /\ UNCHANGED <<dg, kc, bi>>

Decrypt ==
  /\ Len(ci) = 1
  /\ \E keyObject \in CipherKeys, encoding \in CipherEncodings :
       ci' = Append(ci, [text |-> ci[1].result.value, key |-> keyObject,
                         encoding |-> encoding,
                         result |-> decrypt(ci[1].result.value, keyObject, encoding)])
  /\ UNCHANGED <<dg, kc, bi>>

Init ==
  /\ dg = <<>>
  /\ kc = <<>>
  /\ ci = <<>>
  /\ bi = <<>>

NextDigest == Digest \/ DigestAgain \/ DigestSwapped
SpecDigest == Init /\ [][NextDigest]_vars

NextKey == GenKey \/ GenKeyAgain
SpecKey == Init /\ [][NextKey]_vars

NextCipher == Encrypt \/ Decrypt
SpecCipher == Init /\ [][NextCipher]_vars

(***************************************************************************)
(* Caller of buildIndex: builds an index of a document collection and then *)
(* resolves a query against the table returned.                            *)
(***************************************************************************)
MaxDocs == 2

Pointers == <<"p1", "p2", "p3", "p4">>

\* "", "a", "a b", "a a", "b  a" as text, and two binary payloads
DocumentData ==
  {Str(<<>>), Str(<<97>>), Str(<<97, 32, 98>>), Str(<<97, 32, 97>>),
   Str(<<98, 32, 32, 97>>), AB(<<1>>), AB(<<2>>)}

\* the collections of up to MaxDocs documents, with unique pointers
Collections ==
  UNION {{[i \in 1..n |-> [pointer |-> Pointers[i], data |-> data[i]]] :
            data \in [1..n -> DocumentData]} : n \in 0..MaxDocs}

\* key objects: key material of genSecretKey (secretSalt an ArrayBuffer), the
\* same with secretSalt held as a Uint8Array, and the {key, iv} object of
\* crypto.js's generateSecretKey, which has no secretSalt
IndexKeyMaterial ==
  genSecretKey(Str(<<97, 98>>), "undefined", U8(<<1, 2, 3>>), Undefined, Undefined, 0, 1).value

IndexKeys ==
  {IndexKeyMaterial,
   [IndexKeyMaterial EXCEPT !.secretSalt = U8(IndexKeyMaterial.secretSalt.v)],
   generateSecretKey(Str(<<97, 98>>), "undefined", U8(<<1, 2, 3>>), Undefined, Undefined, 0).value}

\* "a", "b", "", "c" as text, and binary queries
Queries ==
  {Str(<<97>>), Str(<<98>>), Str(<<>>), Str(<<99>>), AB(<<1>>), AB(<<2>>)}

BuildIndex ==
  /\ bi = <<>>
  /\ \E documents \in Collections, secretKey \in IndexKeys,
        getKeywords \in Extractors \cup {"undefined"} :
       bi' = <<buildIndex(documents, secretKey, getKeywords)>>
  /\ UNCHANGED <<dg, kc, ci>>

DigestResolved ==
  /\ Len(bi) = 1
  /\ bi[1].pc = "await"
  /\ bi' = <<Resumed(bi[1])>>
  /\ UNCHANGED <<dg, kc, ci>>

\* the query flow: trapdoor(query, key), looked up in the table returned
Query ==
  /\ Len(bi) = 1
  /\ bi[1].pc = "returned"
  /\ \E query \in Queries :
       LET t == trapdoor(query, bi[1].secretKey)
       IN bi' = <<[bi[1] EXCEPT !.pc = "queried", !.query = query, !.trapdoor = t,
                                !.found = Lookup(bi[1].result, t)]>>
  /\ UNCHANGED <<dg, kc, ci>>

NextIndex == BuildIndex \/ DigestResolved \/ Query
SpecIndex == Init /\ [][NextIndex]_vars

(***************************************************************************)
(* Properties                                                              *)
(***************************************************************************)
Range(seq) == {seq[j] : j \in 1..Len(seq)}

\* the keywords the invocation's extractor returns for its i-th document
Extracted(b, i) == CallGetKeywords(b.getKeywords, b.documents[i].data).keywords

\* the pointers, in document order, of the documents whose keywords hold w
PointersOfDocsWith(b, w) ==
  LET n == Len(b.documents)
      idx == SelectSeq([i \in 1..n |-> i], LAMBDA i : w \in Range(Extracted(b, i)))
  IN [j \in 1..Len(idx) |-> b.documents[idx[j]].pointer]

\* C1: Query resolution.  For a keyword w that the extractor returns for at
\* least one document, trapdoor(w, k) is a key of the table buildIndex(D, k)
\* returned, the pointer of every document containing w is stored under that
\* key, and the trapdoor buildIndex computes for a keyword, whichever
\* document it comes from, is trapdoor(keyword, k).
C1_QueryResolution ==
  \A n \in 1..Len(bi) :
    LET b == bi[n] IN
      /\ b.pc = "await" => b.pending = trapdoor(b.keywords[b.ki], b.secretKey)
      /\ (b.pc = "queried" /\ PointersOfDocsWith(b, b.query) # <<>>) =>
            /\ HasKey(b.result, b.trapdoor)
            /\ Range(PointersOfDocsWith(b, b.query)) \subseteq Range(b.found)

\* C1 witness: a query for "a", which two documents hold, has found both
C1_Witness ==
  /\ Len(bi) = 1
  /\ bi[1].pc = "queried"
  /\ bi[1].query = Str(<<97>>)
  /\ PointersOfDocsWith(bi[1], bi[1].query) = <<"p1", "p2">>
  /\ bi[1].found = <<"p1", "p2">>

\* the extractor returned, for every document, a keyword set of text:
\* strings, none of them twice for one document (as the default extractor
\* always does)
KeywordSetsOfText(b) ==
  \A i \in 1..Len(b.documents) :
    LET kws == Extracted(b, i) IN
      /\ \A j \in 1..Len(kws) : kws[j].t = "string"
      /\ \A j, k \in 1..Len(kws) : kws[j] = kws[k] => j = k

\* the trapdoors, by trapdoor(), of the keywords of each document
Trapdoors(b) ==
  [i \in 1..Len(b.documents) |->
    [j \in 1..Len(Extracted(b, i)) |-> trapdoor(Extracted(b, i)[j], b.secretKey)]]

\* the place, in processing order, where trapdoor t is first seen in tds
Seen(tds, t) ==
  UNION {{i * 100 + j : j \in {j \in 1..Len(tds[i]) : tds[i][j] = t}} :
         i \in 1..Len(tds)}
FirstSeen(tds, t) == CHOOSE m \in Seen(tds, t) : \A o \in Seen(tds, t) : m <= o

\* C2: Index correctness.  The keys of the table returned are exactly the
\* trapdoors of the keywords extracted from the documents, each once, in the
\* order each was first seen; the value at the trapdoor of a keyword is
\* exactly the pointers of the documents whose keyword set contains it, in
\* document order; and the table built from no documents is empty.
C2_IndexCorrectness ==
  \A n \in 1..Len(bi) :
    LET b == bi[n]
        docs == 1..Len(b.documents)
        keys == [j \in 1..Len(b.result) |-> b.result[j].trapdoor]
        tds == Trapdoors(b)
        first == [j \in 1..Len(keys) |-> FirstSeen(tds, keys[j])]
    IN (b.pc = "returned" /\ KeywordSetsOfText(b)) =>
         /\ Range(keys) = UNION {Range(tds[i]) : i \in docs}
         /\ \A j, k \in 1..Len(keys) : keys[j] = keys[k] => j = k
         /\ \A j, k \in 1..Len(keys) : j < k => first[j] < first[k]
         /\ \A i \in docs : \A j \in 1..Len(tds[i]) :
              Lookup(b.result, tds[i][j]) = PointersOfDocsWith(b, Extracted(b, i)[j])
         /\ b.documents = <<>> => b.result = <<>>

\* C2 witness: "a b" and "a" indexed with the default extractor: two keys,
\* the first holding both pointers and the second the first pointer only
C2_Witness ==
  /\ Len(bi) = 1
  /\ bi[1].pc = "returned"
  /\ bi[1].getKeywords = "default"
  /\ Len(bi[1].documents) = 2
  /\ Len(bi[1].result) = 2
  /\ bi[1].result[1].pointers = <<"p1", "p2">>
  /\ bi[1].result[2].pointers = <<"p1">>

\* C5: Per-document de-duplication.  In the table returned, for any
\* extractor, a document's pointer occurs at most once in the pointer list of
\* any trapdoor (the documents' pointers being unique).
C5_PointerOnce ==
  \A n \in 1..Len(bi) :
    bi[n].returned =>
      \A e \in 1..Len(bi[n].result) :
        LET ps == bi[n].result[e].pointers
        IN \A j, k \in 1..Len(ps) : ps[j] = ps[k] => j = k

\* the first document whose data is not text
NonText(b) == {i \in 1..Len(b.documents) : b.documents[i].data.t # "string"}
FirstNonText(b) == CHOOSE i \in NonText(b) : \A o \in NonText(b) : i <= o

\* C8: Missing extractor.  An invocation without getKeywords on a
\* collection holding a document that is not text never returns a table: it
\* goes no further than that document, where it throws (a TypeError), and the
\* table built from the documents before it is not returned.
C8_MissingExtractor ==
  \A n \in 1..Len(bi) :
    LET b == bi[n] IN
      (b.supplied = "undefined" /\ NonText(b) # {}) =>
        /\ ~b.returned
        /\ b.result = NoTable
        /\ b.pc \in {"await", "threw"}
        /\ b.di <= FirstNonText(b)
        /\ b.pc = "await" => b.di < FirstNonText(b)
        /\ b.pc = "threw" => (b.di = FirstNonText(b) /\ b.error = "TypeError")

\* C8 witness: the second document is the one that is not text; the
\* invocation has thrown there, with the first document already indexed
C8_Witness ==
  /\ Len(bi) = 1
  /\ bi[1].supplied = "undefined"
  /\ bi[1].pc = "threw"
  /\ NonText(bi[1]) = {2}
  /\ bi[1].indexTable # <<>>
  /\ bi[1].result = NoTable

\* the text holds nothing but spaces (it may be empty)
OnlySpaces(data) == data.t = "string" /\ \A j \in 1..Len(data.v) : data.v[j] = 32

\* C10: Default tokenizer.  With the default extractor no keyword is the
\* empty string, and a document whose text is empty or only whitespace adds
\* no key and no pointer to the table.
C10_DefaultTokenizer ==
  \A n \in 1..Len(bi) :
    LET b == bi[n] IN
      b.getKeywords = "default" =>
        /\ \A j \in 1..Len(b.keywords) : b.keywords[j] # Str(<<>>)
        /\ b.returned =>
             \A i \in 1..Len(b.documents) :
               OnlySpaces(b.documents[i].data) =>
                 \A e \in 1..Len(b.result) :
                   b.documents[i].pointer \notin Range(b.result[e].pointers)

\* C3: Round-trip.  A text encrypted and then decrypted with the same key
\* material and the same encoding argument (omitted, for hex, or any other)
\* comes back as it was.
C3_RoundTrip ==
  (Len(ci) = 2 /\ ci[2].key = ci[1].key /\ ci[2].encoding = ci[1].encoding) =>
    /\ ci[2].result.status = "fulfilled"
    /\ ci[2].result.value = ci[1].text

\* C6: Failed decryption is detectable.  A ciphertext made by encrypt(m, k)
\* and decrypted with key material whose cipher key or iv differs from k's
\* is rejected; decrypt never returns a text other than m.
C6_WrongKeyDetected ==
  (Len(ci) = 2 /\ ci[1].encoding = "undefined" /\ ci[2].encoding = "undefined") =>
    /\ (ci[2].key.key # ci[1].key.key \/ ci[2].key.iv # ci[1].key.iv) =>
         ci[2].result.status = "rejected"
    /\ ci[2].result.status = "fulfilled" => ci[2].result.value = ci[1].text

\* the options salt, iterations, hash and keyLengthByte are all supplied
ExplicitOptions(c) ==
  /\ c.salt # Undefined
  /\ c.iterations # Undefined
  /\ c.hash # "undefined"
  /\ c.keyLengthByte # Undefined

\* C4: Determinism of key derivation.  Two calls with the same passphrase
\* and the same explicitly supplied options return the same cipherKey, iv and
\* secretSalt.
C4_Determinism ==
  (Len(kc) = 2 /\ kc[1].secret = kc[2].secret /\ ExplicitOptions(kc[1])) =>
    kc[2].result = kc[1].result

\* C7: Key-length guard.  A call with keyLengthByte < 48 is rejected and
\* returns no key material; key material returned has the first 32 derived
\* bytes as its cipher key and the last 16 as its iv, and the two ranges do
\* not overlap.
C7_KeyLengthGuard ==
  \A n \in 1..Len(kc) :
    LET c == kc[n]
        derivedBits == DerivedBits(c.secret, c.hash, c.salt, c.iterations,
                                   c.keyLengthByte, c.r1)
    IN /\ OptKeyLengthByte(c.keyLengthByte) < DefaultKeyLengthByte =>
            (c.result.status = "rejected" /\ c.result.value = NoKeyMaterial)
       /\ c.result.status = "fulfilled" =>
            /\ c.result.value.key = SubSeq(derivedBits, 1, AesKeyLength)
            /\ c.result.value.iv.v =
                 SubSeq(derivedBits, Len(derivedBits) - IvLength + 1, Len(derivedBits))
            /\ AesKeyLength <= Len(derivedBits) - IvLength

\* the bytes of a value: the UTF-8 bytes of a text, the content of a buffer
BytesOf(x) == IF x.t = "string" THEN Utf8Encode(x.v) ELSE x.v
SaltOf(c) == IF c.salt = Undefined THEN DEFAULT_SALT ELSE c.salt

\* C9: Digest.  digest hashes the bytes of data followed by the bytes of
\* salt; so digest(d, {salt: s}) and digest(s, {salt: d}) hash different
\* byte sequences whenever d followed by s differs from s followed by d, and
\* two calls with the same arguments return the same digest.
C9_DigestOrder ==
  /\ \A n \in 1..Len(dg) : dg[n].input = BytesOf(dg[n].data) \o BytesOf(SaltOf(dg[n]))
  /\ (Len(dg) = 2 /\ dg[2].data = dg[1].salt /\ dg[2].salt = dg[1].data
        /\ BytesOf(dg[1].data) \o BytesOf(dg[1].salt)
             # BytesOf(dg[1].salt) \o BytesOf(dg[1].data)) =>
       dg[2].input # dg[1].input
  /\ (Len(dg) = 2 /\ dg[2].data = dg[1].data /\ dg[2].salt = dg[1].salt) =>
       dg[2].out = dg[1].out

\* the passphrase of a call, as text
SecretOf(c) == OptSecret(c.secret)

\* C11: Passphrase sensitivity.  The bytes imported as the derivation key
\* are the UTF-8 bytes of the passphrase; two calls whose passphrases differ
\* as text, with the same supplied salt and the same iterations, hash and
\* keyLengthByte, import different bytes and, where both return key
\* material, return a different cipher key or iv.
C11_PassphraseSensitivity ==
  /\ \A n \in 1..Len(kc) : DeriveBitsKey(kc[n].secret) = Utf8Encode(SecretOf(kc[n]).v)
  /\ (Len(kc) = 2 /\ SecretOf(kc[1]) # SecretOf(kc[2]) /\ kc[1].salt # Undefined) =>
       /\ DeriveBitsKey(kc[1].secret) # DeriveBitsKey(kc[2].secret)
       /\ (kc[1].result.status = "fulfilled" /\ kc[2].result.status = "fulfilled") =>
            (\/ kc[1].result.value.key # kc[2].result.value.key
             \/ kc[1].result.value.iv # kc[2].result.value.iv)

\* the iteration count the second derivation is run with
SecretSaltIterations(c) == OptIterations(c.iterations) \div 2

\* C13: secretSalt derivation.  A call with a positive integer iterations
\* whose first derivation and key import succeed does not fail: its second
\* derivation runs with a positive count that is half of iterations, and the
\* secretSalt returned is the 32 bytes derived from the same imported
\* passphrase key.
C13_SecretSaltDerivation ==
  \A n \in 1..Len(kc) :
    LET c == kc[n]
        first == generateSecretKey(c.secret, c.hash, c.salt, c.iterations,
                                   c.keyLengthByte, c.r1)
    IN (OptIterations(c.iterations) > 0 /\ first.status = "fulfilled") =>
         /\ c.result.status = "fulfilled"
         /\ SecretSaltIterations(c) > 0
         /\ 2 * SecretSaltIterations(c) = OptIterations(c.iterations)
         /\ c.result.value.secretSalt.t = "ArrayBuffer"
         /\ Len(c.result.value.secretSalt.v) = AesKeyLength
         /\ c.result.value.secretSalt =
              Pbkdf2Bits(OptHash(c.hash), DeriveBitsKey(c.secret), RandomValues(c.r2).v,
                         SecretSaltIterations(c), 256)

\* the trapdoor of a keyword under a salt: the hex digest of the bytes of
\* the keyword followed by the bytes of the salt
SaltedDigest(keyword, salt) ==
  ab2str(SubtleDigest("SHA-256", BytesOf(keyword) \o BytesOf(salt)), "undefined")

\* C12: Trapdoors are keyed by secretSalt.  buildIndex and trapdoor hash a
\* keyword only with the secretSalt of the key object given: an invocation
\* awaiting a digest, and a query answered, have a key object that carries a
\* secretSalt, and the trapdoor is the digest of the keyword followed by that
\* secretSalt; with a key object without secretSalt they fail.
C12_KeyedBySecretSalt ==
  \A n \in 1..Len(bi) :
    LET b == bi[n] IN
      /\ b.pc = "await" =>
           /\ b.secretKey.secretSalt # Undefined
           /\ b.pending = SaltedDigest(b.keywords[b.ki], b.secretKey.secretSalt)
      /\ b.pc = "queried" =>
           /\ b.secretKey.secretSalt # Undefined
           /\ b.trapdoor = SaltedDigest(b.query, b.secretKey.secretSalt)

(***************************************************************************)
(* Concurrent callers of buildIndex: up to MaxBuilds invocations are       *)
(* started, each on a collection, a key object and an extractor of its     *)
(* own choice, and the awaited digests are delivered in any order.         *)
(***************************************************************************)
MaxBuilds == 2

\* [], ["a b"], ["a", "a a"] and ["a", binary]
ConcurrentCollections ==
  {<<>>,
   <<[pointer |-> "p1", data |-> Str(<<97, 32, 98>>)]>>,
   <<[pointer |-> "p1", data |-> Str(<<97>>)],
     [pointer |-> "p2", data |-> Str(<<97, 32, 97>>)]>>,
   <<[pointer |-> "p1", data |-> Str(<<97>>)],
     [pointer |-> "p2", data |-> AB(<<1>>)]>>}

\* two key objects whose trapdoors differ: secretSalt held as a Uint8Array,
\* and no secretSalt
ConcurrentKeys == {k \in IndexKeys : k.secretSalt = Undefined \/ k.secretSalt.t = "Uint8Array"}

\* a delivery that stores the pointer in one table common to all invocations
DeliverShared(invocations, n) ==
  [m \in 1..Len(invocations) |->
    IF m = n THEN Resumed(invocations[n])
    ELSE [invocations[m] EXCEPT
            !.indexTable = Push(@, invocations[n].pending,
                                invocations[n].documents[invocations[n].di].pointer)]]

\* the digest awaited by invocation n is delivered: that invocation alone
\* runs on, with its own indexTable (let indexTable = {})
Deliver(invocations, n) == [invocations EXCEPT ![n] = Resumed(invocations[n])]

Invoke ==
  /\ Len(bi) < MaxBuilds
  /\ \E documents \in ConcurrentCollections, secretKey \in ConcurrentKeys,
        getKeywords \in {"undefined", "tokens"} :
       bi' = Append(bi, buildIndex(documents, secretKey, getKeywords))
  /\ UNCHANGED <<dg, kc, ci>>

DigestDelivered ==
  /\ \E n \in 1..Len(bi) :
       /\ bi[n].pc = "await"
       /\ bi' = Deliver(bi, n)
  /\ UNCHANGED <<dg, kc, ci>>

NextConcurrent == Invoke \/ DigestDelivered
SpecConcurrent == Init /\ [][NextConcurrent]_vars

\* the invocation run alone: every awaited digest is delivered at once
RECURSIVE Solo(_)
Solo(b) == IF b.pc = "await" THEN Solo(Resumed(b)) ELSE b
RunAlone(documents, secretKey, getKeywords) ==
  Solo(buildIndex(documents, secretKey, getKeywords))

\* the place of the document with the pointer in the collection
DocOf(b, pointer) == CHOOSE i \in 1..Len(b.documents) : b.documents[i].pointer = pointer

\* an invocation that has ended has ended as it does alone, and each of the
\* pointer lists returned is in document-processing order
EndsAsAlone(b) ==
  LET alone == RunAlone(b.documents, b.secretKey, b.supplied)
  IN /\ b.pc # "await" =>
          (b.pc = alone.pc /\ b.result = alone.result /\ b.error = alone.error)
     /\ \A e \in 1..Len(b.result) :
          LET ps == b.result[e].pointers
          IN \A j, k \in 1..Len(ps) : j < k => DocOf(b, ps[j]) <= DocOf(b, ps[k])

\* a step of one invocation leaves the other invocations as they are, and
\* the documents, key object and extractor of every invocation as given
NoInterference ==
  /\ Len(bi') >= Len(bi)
  /\ \A n \in 1..Len(bi) :
       /\ bi'[n].documents = bi[n].documents
       /\ bi'[n].secretKey = bi[n].secretKey
       /\ bi'[n].supplied = bi[n].supplied
       /\ bi'[n] # bi[n] => \A m \in 1..Len(bi) : m # n => bi'[m] = bi[m]

\* C14: Concurrent builds are isolated.  However the invocations interleave
\* at their awaited digests, every invocation returns (or throws) exactly as
\* it does when run alone, each pointer list in document-processing order;
\* a step of one invocation changes no other invocation, and no step changes
\* the documents or the key object an invocation was given.
C14_ConcurrentBuilds ==
  /\ [](\A n \in 1..Len(bi) : EndsAsAlone(bi[n]))
  /\ [][NoInterference]_vars

\* C14 witness: two invocations on the same collection with different key
\* objects interleave: the first is still suspended, with a pointer stored in
\* its table, while the second has run past it and returned its own table
C14_Witness ==
  /\ Len(bi) = 2
  /\ bi[1].pc = "await" /\ bi[1].indexTable # <<>>
  /\ bi[2].pc = "returned"
  /\ bi[1].documents = bi[2].documents
  /\ bi[1].secretKey # bi[2].secretKey
  /\ Len(bi[2].documents) = 2
  /\ bi[2].getKeywords = "default"
  /\ Len(bi[2].result) = 1
  /\ bi[2].result[1].pointers = <<"p1", "p2">>
  /\ ~HasKey(bi[1].indexTable, bi[2].result[1].trapdoor)

=============================================================================
